---- MODULE Spec2Model ----
(***************************************************************************)
(* Reference-counted JSObject of src/handlers/unleashedjs/ujs.c:           *)
(* create_js_object, retain_js_object, release_js_object and               *)
(* js_object_get_data, run by a single-threaded caller over a heap with    *)
(* instrumented allocation tracking.                                       *)
(***************************************************************************)
EXTENDS Integers, Sequences, FiniteSets, TLC

(* ---------- bounds ---------- *)
\* number of pointer variables (jsObj) the caller holds, one create each
MaxHandles == 2
\* longest caller buffer handed to create (before its terminator)
MaxLen == 1
\* most logical owners the caller lets one object have at a time
MaxOwners == 3
\* how far below INT_MAX the counts of the overflow runs start
MaxNear == 2
\* largest magnitude of the operands given to fast_math_operation
MaxNum == 2

(* ---------- program constants ---------- *)
\* the null pointer
NULL == 0
\* address of the string literal "null" in static storage
NullLiteral == 0 - 1
\* the largest and the smallest value of int, the type of ref_count
INT_MAX == 2147483647
INT_MIN == (0 - INT_MAX) - 1
\* the bytes of the string literal "null" (ASCII), before its terminator
NullString == <<110, 117, 108, 108>>

Slot == 1..MaxHandles
\* the byte values of caller buffers: the NUL terminator and the letter 'A'
Byte == {0, 65}

RECURSIVE SeqsUpTo(_)
\* all byte sequences of length at most n
SeqsUpTo(n) ==
    IF n = 0 THEN {<<>>}
    ELSE LET S == SeqsUpTo(n - 1)
         IN  S \cup {Append(s, b) : s \in {t \in S : Len(t) = n - 1}, b \in Byte}

\* the caller buffers passed as `data`; each is followed by a terminator
Input == SeqsUpTo(MaxLen)

VARIABLES
    heap,      \* heap[a]: the block malloc returned at address a
    ref,       \* ref[s]: the caller's pointer variable (jsObj) of slot s
    call,      \* call[s]: the create call made for slot s, if any
    owners,    \* owners[s]: logical owners of the object of slot s, that is
               \* 1 for its create + its retains - its releases
    last,      \* the last call made and what it returned
    demo       \* perform_low_level_demo: its position, its local jsObj and
               \* the value it returned (none until it returns)

vars == <<heap, ref, call, owners, last, demo>>

(* ---------- C library ---------- *)
RECURSIVE strlen(_)
\* number of bytes before the first NUL of the terminated buffer d \o <<0>>
strlen(d) ==
    IF d = <<>> \/ Head(d) = 0 THEN 0 ELSE 1 + strlen(Tail(d))

\* strcpy(dst, src): the bytes up to and including the first NUL
strcpy(d) == SubSeq(d, 1, strlen(d)) \o <<0>>

\* a block of struct memory (JSObject) allocated for slot s
ObjBlock(s) ==
    [kind |-> "obj", by |-> s, allocated |-> TRUE, frees |-> 0, seq |-> 0,
     ref_count |-> 0, data |-> NULL, size |-> 0, bytes |-> <<>>]

\* a block of n bytes of payload memory allocated for slot s
BufBlock(s, n) ==
    [kind |-> "buf", by |-> s, allocated |-> TRUE, frees |-> 0, seq |-> 0,
     ref_count |-> 0, data |-> NULL, size |-> n, bytes |-> <<>>]

\* the blocks of the create call of block p that have been freed so far
FreedBefore(h, p) == {a \in DOMAIN h : h[a].by = h[p].by /\ h[a].frees > 0}

\* free(p): free(NULL) does nothing; otherwise the block is deallocated.
\* The tracking notes in seq the position of this free among the frees of
\* the blocks of the same create call (1 for the first one freed).
free(h, p) ==
    IF p = NULL THEN h
    ELSE [h EXCEPT ![p].allocated = FALSE, ![p].frees = @ + 1,
                   ![p].seq = 1 + Cardinality(FreedBefore(h, p))]

(* ---------- the four operations, as functions of the heap ---------- *)

\* create_js_object that leaves ref_count at 0 instead of setting it to 1
create_js_object_count0(h, s, d, objOk, bufOk) ==
    IF ~objOk THEN [heap |-> h, ret |-> NULL]
    ELSE LET obj == Len(h) + 1
             sz  == strlen(d) + 1
             h1  == Append(h, [ObjBlock(s) EXCEPT !.size = sz])
         IN  IF bufOk
             THEN LET buf == obj + 1
                      h2  == Append([h1 EXCEPT ![obj].data = buf],
                                    [BufBlock(s, sz) EXCEPT !.bytes = strcpy(d)])
                  IN  [heap |-> h2, ret |-> obj]
             ELSE [heap |-> h1, ret |-> obj]

\* create_js_object that sizes the payload strlen(data), without the + 1;
\* malloc(0) then returns NULL for the empty string
create_js_object_noterm(h, s, d, objOk, bufOk) ==
    IF ~objOk THEN [heap |-> h, ret |-> NULL]
    ELSE LET obj == Len(h) + 1
             sz  == strlen(d)
             h1  == Append(h, [ObjBlock(s) EXCEPT !.ref_count = 1, !.size = sz])
         IN  IF bufOk /\ sz > 0
             THEN LET buf == obj + 1
                      h2  == Append([h1 EXCEPT ![obj].data = buf],
                                    [BufBlock(s, sz) EXCEPT !.bytes = strcpy(d)])
                  IN  [heap |-> h2, ret |-> obj]
             ELSE [heap |-> h1, ret |-> obj]

\* create_js_object that keeps the payload in one buffer shared by all
\* objects (as the static buffer of get_system_info is): once a payload
\* buffer exists, later objects point to it and overwrite it
create_js_object_shared(h, s, d, objOk, bufOk) ==
    IF ~objOk THEN [heap |-> h, ret |-> NULL]
    ELSE LET obj == Len(h) + 1
             sz  == strlen(d) + 1
             h1  == Append(h, [ObjBlock(s) EXCEPT !.ref_count = 1, !.size = sz])
             old == {a \in DOMAIN h : h[a].kind = "buf"}
         IN  IF bufOk /\ old # {}
             THEN LET buf == CHOOSE a \in old : \A b \in old : a <= b
                  IN  [heap |-> [h1 EXCEPT ![obj].data = buf,
                                          ![buf].bytes = strcpy(d)],
                       ret |-> obj]
             ELSE IF bufOk
             THEN LET buf == obj + 1
                      h2  == Append([h1 EXCEPT ![obj].data = buf],
                                    [BufBlock(s, sz) EXCEPT !.bytes = strcpy(d)])
                  IN  [heap |-> h2, ret |-> obj]
             ELSE [heap |-> h1, ret |-> obj]

\* create_js_object(data): the heap afterwards and the pointer returned.
\* objOk, bufOk: whether the first and the second malloc succeed.
create_js_object(h, s, d, objOk, bufOk) ==
    IF ~objOk THEN [heap |-> h, ret |-> NULL]
    ELSE LET obj == Len(h) + 1
             sz  == strlen(d) + 1
             h1  == Append(h, [ObjBlock(s) EXCEPT !.ref_count = 1, !.size = sz])
         IN  IF bufOk
             THEN LET buf == obj + 1
                      h2  == Append([h1 EXCEPT ![obj].data = buf],
                                    [BufBlock(s, sz) EXCEPT !.bytes = strcpy(d)])
                  IN  [heap |-> h2, ret |-> obj]
             ELSE [heap |-> h1, ret |-> obj]

\* n++ on an int, as the set of values that may be stored: n + 1 below
\* INT_MAX; at INT_MAX the signed overflow is undefined and any int may
\* result (the wrapped value INT_MIN and other representative values)
IntIncrement(n) ==
    IF n < INT_MAX THEN {n + 1} ELSE {INT_MIN, 0 - 1, 0, INT_MAX}

\* retain_js_object that bumps size along with ref_count
retain_js_object_size(h, obj) ==
    IF obj # NULL
    THEN {[h EXCEPT ![obj].ref_count = v, ![obj].size = @ + 1] :
              v \in IntIncrement(h[obj].ref_count)}
    ELSE {h}

\* retain_js_object with the body of release_js_object pasted in
retain_js_object_pasted(h, obj) ==
    IF obj # NULL
    THEN LET h1 == [h EXCEPT ![obj].ref_count = @ - 1]
         IN  IF h1[obj].ref_count = 0
             THEN {free(free(h1, h1[obj].data), obj)}
             ELSE {h1}
    ELSE {h}

\* retain_js_object that stops counting one short of INT_MAX
retain_js_object_saturating(h, obj) ==
    IF obj # NULL
    THEN IF h[obj].ref_count < INT_MAX - 1
         THEN {[h EXCEPT ![obj].ref_count = @ + 1]}
         ELSE {h}
    ELSE {h}

\* retain_js_object(obj): the heaps that may result
retain_js_object(h, obj) ==
    IF obj # NULL
    THEN {[h EXCEPT ![obj].ref_count = v] : v \in IntIncrement(h[obj].ref_count)}
    ELSE {h}

\* release_js_object that forgets free(obj->data)
release_js_object_leak(h, obj) ==
    IF obj # NULL
    THEN LET h1 == [h EXCEPT ![obj].ref_count = @ - 1]
         IN  IF h1[obj].ref_count = 0 THEN free(h1, obj) ELSE h1
    ELSE h

\* release_js_object that tests --obj->ref_count <= 1
release_js_object_early(h, obj) ==
    IF obj # NULL
    THEN LET h1 == [h EXCEPT ![obj].ref_count = @ - 1]
         IN  IF h1[obj].ref_count <= 1
             THEN free(free(h1, h1[obj].data), obj)
             ELSE h1
    ELSE h

\* release_js_object that tests obj->ref_count-- == 0 (post-decrement)
release_js_object_post(h, obj) ==
    IF obj # NULL
    THEN LET h1 == [h EXCEPT ![obj].ref_count = @ - 1]
         IN  IF h[obj].ref_count = 0
             THEN free(free(h1, h1[obj].data), obj)
             ELSE h1
    ELSE h

\* release_js_object that calls free(obj) before free(obj->data)
release_js_object_objfirst(h, obj) ==
    IF obj # NULL
    THEN LET h1 == [h EXCEPT ![obj].ref_count = @ - 1]
         IN  IF h1[obj].ref_count = 0
             THEN free(free(h1, obj), h1[obj].data)
             ELSE h1
    ELSE h

\* release_js_object(obj)
release_js_object(h, obj) ==
    IF obj # NULL
    THEN LET h1 == [h EXCEPT ![obj].ref_count = @ - 1]
         IN  IF h1[obj].ref_count = 0
             THEN free(free(h1, h1[obj].data), obj)
             ELSE h1
    ELSE h

\* js_object_get_data that returns NULL, not "null", for a null object
js_object_get_data_nullptr(h, obj) ==
    IF obj # NULL THEN h[obj].data ELSE NULL

\* js_object_get_data(obj): the pointer returned
js_object_get_data(h, obj) ==
    IF obj # NULL THEN h[obj].data ELSE NullLiteral

\* the C string a returned pointer designates (<<>> wrapped in a sequence;
\* the empty sequence when the pointer designates no string)
StringAt(h, p) ==
    IF p = NullLiteral THEN <<NullString>>
    ELSE IF p \in 1..Len(h) /\ h[p].kind = "buf" /\ h[p].allocated
         THEN <<SubSeq(h[p].bytes, 1, strlen(h[p].bytes))>>
         ELSE <<>>

(* ---------- the caller ---------- *)
\* perform_low_level_demo has not been called
NoDemo == [pc |-> "idle", jsObj |-> NULL, ret |-> <<>>]

NoCall == [made |-> FALSE, data |-> <<>>, objOk |-> FALSE, bufOk |-> FALSE]

\* the caller may pass p to retain, release and read: null, or an object
\* that has not been freed (using a freed object is forbidden by contract)
Usable(p) == IF p = NULL THEN TRUE ELSE heap[p].allocated

Init ==
    /\ heap = <<>>
    /\ ref = [s \in Slot |-> NULL]
    /\ call = [s \in Slot |-> NoCall]
    /\ owners = [s \in Slot |-> 0]
    /\ last = [op |-> "none", arg |-> NULL, ret |-> NULL]
    /\ demo = NoDemo

\* jsObj = create_js_object(d), the slots being used in order
Create(s) ==
    /\ ~call[s].made
    /\ \A t \in Slot : t < s => call[t].made
    /\ \E d \in Input, objOk \in BOOLEAN, bufOk \in BOOLEAN :
         /\ (~objOk => ~bufOk)
         /\ LET r == create_js_object(heap, s, d, objOk, bufOk)
            IN  /\ heap' = r.heap
                /\ ref' = [ref EXCEPT ![s] = r.ret]
                /\ owners' = [owners EXCEPT ![s] = IF r.ret # NULL THEN 1 ELSE 0]
                /\ last' = [op |-> "create", arg |-> NULL, ret |-> r.ret]
         /\ call' = [call EXCEPT ![s] =
                        [made |-> TRUE, data |-> d, objOk |-> objOk, bufOk |-> bufOk]]
    /\ UNCHANGED demo

\* retain_js_object(jsObj)
Retain(s) ==
    /\ Usable(ref[s])
    /\ owners[s] < MaxOwners
    /\ heap' \in retain_js_object(heap, ref[s])
    /\ owners' = [owners EXCEPT ![s] = IF ref[s] # NULL THEN @ + 1 ELSE @]
    /\ last' = [op |-> "retain", arg |-> ref[s], ret |-> NULL]
    /\ UNCHANGED <<ref, call, demo>>

\* release_js_object(jsObj)
Release(s) ==
    /\ Usable(ref[s])
    /\ heap' = release_js_object(heap, ref[s])
    /\ owners' = [owners EXCEPT ![s] = IF ref[s] # NULL THEN @ - 1 ELSE @]
    /\ last' = [op |-> "release", arg |-> ref[s], ret |-> NULL]
    /\ UNCHANGED <<ref, call, demo>>

\* a read that takes a reference on the object it reads
Read_retaining(s) ==
    /\ Usable(ref[s])
    /\ last' = [op |-> "read", arg |-> ref[s],
                ret |-> js_object_get_data(heap, ref[s])]
    /\ heap' \in retain_js_object(heap, ref[s])
    /\ UNCHANGED <<ref, call, owners, demo>>

\* js_object_get_data(jsObj)
Read(s) ==
    /\ Usable(ref[s])
    /\ last' = [op |-> "read", arg |-> ref[s],
                ret |-> js_object_get_data(heap, ref[s])]
    /\ UNCHANGED <<heap, ref, call, owners, demo>>

Next ==
    \/ \E s \in Slot : Create(s)
    \/ \E s \in Slot : Retain(s)
    \/ \E s \in Slot : Release(s)
    \/ \E s \in Slot : Read(s)

Spec == Init /\ [][Next]_vars

(* ---------- counts near INT_MAX ---------- *)
\* the counts of the overflow runs
NearMax == {INT_MAX - k : k \in 0..MaxNear}

\* one object, created in slot 1 and retained until its count is near
\* INT_MAX; the other slots hold NULL
InitOverflow ==
    \E d \in Input, bufOk \in BOOLEAN, c \in NearMax :
        LET r == create_js_object(<<>>, 1, d, TRUE, bufOk)
        IN  /\ heap = [r.heap EXCEPT ![r.ret].ref_count = c]
            /\ ref = [s \in Slot |-> IF s = 1 THEN r.ret ELSE NULL]
            /\ call = [s \in Slot |->
                          IF s = 1
                          THEN [made |-> TRUE, data |-> d, objOk |-> TRUE, bufOk |-> bufOk]
                          ELSE NoCall]
            /\ owners = [s \in Slot |-> IF s = 1 THEN c ELSE 0]
            /\ last = [op |-> "none", arg |-> NULL, ret |-> NULL]
            /\ demo = NoDemo

\* retain_js_object(jsObj) on a count near INT_MAX; the owner count is not
\* followed past INT_MAX
RetainNearMax(s) ==
    /\ Usable(ref[s])
    /\ IF ref[s] # NULL THEN heap[ref[s]].ref_count \in NearMax ELSE TRUE
    /\ heap' \in retain_js_object(heap, ref[s])
    /\ owners' = [owners EXCEPT ![s] =
                      IF ref[s] # NULL /\ @ < INT_MAX THEN @ + 1 ELSE @]
    /\ last' = [op |-> "retain", arg |-> ref[s], ret |-> NULL]
    /\ UNCHANGED <<ref, call, demo>>

\* release_js_object(jsObj) on a count near INT_MAX, down to the lowest of
\* these counts
ReleaseNearMax(s) ==
    /\ Usable(ref[s])
    /\ IF ref[s] # NULL
       THEN heap[ref[s]].ref_count \in NearMax \ {INT_MAX - MaxNear}
       ELSE TRUE
    /\ heap' = release_js_object(heap, ref[s])
    /\ owners' = [owners EXCEPT ![s] = IF ref[s] # NULL THEN @ - 1 ELSE @]
    /\ last' = [op |-> "release", arg |-> ref[s], ret |-> NULL]
    /\ UNCHANGED <<ref, call, demo>>

NextOverflow ==
    \/ \E s \in Slot : RetainNearMax(s)
    \/ \E s \in Slot : ReleaseNearMax(s)
    \/ \E s \in Slot : Read(s)

SpecOverflow == InitOverflow /\ [][NextOverflow]_vars

(* ---------- fast_math_operation ---------- *)
\* a double is modelled by the exact fraction <<n, d>> in lowest terms, d > 0
RECURSIVE GCD(_, _)
GCD(m, n) == IF n = 0 THEN m ELSE GCD(n, m % n)

Abs(n) == IF n < 0 THEN 0 - n ELSE n

\* the fraction n / d (d # 0) in lowest terms
Frac(n, d) ==
    LET g == GCD(Abs(n), Abs(d))
        sign == IF d < 0 THEN 0 - 1 ELSE 1
    IN  <<(sign * n) \div g, (sign * d) \div g>>

Zero == Frac(0, 1)
Plus(x, y) == Frac(x[1] * y[2] + y[1] * x[2], x[2] * y[2])
Minus(x, y) == Frac(x[1] * y[2] - y[1] * x[2], x[2] * y[2])
Times(x, y) == Frac(x[1] * y[1], x[2] * y[2])
Over(x, y) == Frac(x[1] * y[2], x[2] * y[1])

\* the operands and selectors the dispatcher is called with
Operand == {Frac(n, 1) : n \in (0 - MaxNum)..MaxNum}
Selector == (0 - 1)..4

\* fast_math_operation with the bodies of case 1 and case 2 exchanged
fast_math_operation_swapped(a, b, operation) ==
    CASE operation = 0 -> Plus(a, b)
      [] operation = 1 -> Times(a, b)
      [] operation = 2 -> Minus(a, b)
      [] operation = 3 -> IF b # Zero THEN Over(a, b) ELSE Zero
      [] OTHER -> Zero

\* fast_math_operation(a, b, operation)
fast_math_operation(a, b, operation) ==
    CASE operation = 0 -> Plus(a, b)
      [] operation = 1 -> Minus(a, b)
      [] operation = 2 -> Times(a, b)
      [] operation = 3 -> IF b # Zero THEN Over(a, b) ELSE Zero
      [] OTHER -> Zero

\* a call of fast_math_operation
FastMath ==
    /\ \E a \in Operand, b \in Operand, operation \in Selector :
         last' = [op |-> "fast_math_operation", arg |-> <<a, b, operation>>,
                  ret |-> fast_math_operation(a, b, operation)]
    /\ UNCHANGED <<heap, ref, call, owners, demo>>

\* the state after one create that returned an object, in slot 1
InitMath ==
    \E d \in Input, bufOk \in BOOLEAN :
        LET r == create_js_object(<<>>, 1, d, TRUE, bufOk)
        IN  /\ heap = r.heap
            /\ ref = [s \in Slot |-> IF s = 1 THEN r.ret ELSE NULL]
            /\ call = [s \in Slot |->
                          IF s = 1
                          THEN [made |-> TRUE, data |-> d, objOk |-> TRUE, bufOk |-> bufOk]
                          ELSE NoCall]
            /\ owners = [s \in Slot |-> IF s = 1 THEN 1 ELSE 0]
            /\ last = [op |-> "create", arg |-> NULL, ret |-> r.ret]
            /\ demo = NoDemo

\* calls of the dispatcher while an object is live
NextMath == FastMath

SpecMath == InitMath /\ [][NextMath]_vars

(* ---------- perform_low_level_demo ---------- *)
\* the bytes of "JavaScript object managed by C!" (ASCII)
DemoString ==
    <<74, 97, 118, 97, 83, 99, 114, 105, 112, 116, 32, 111, 98, 106, 101, 99,
      116, 32, 109, 97, 110, 97, 103, 101, 100, 32, 98, 121, 32, 67, 33>>

\* the blocks of the demo are tracked under slot 0
DemoSlot == 0

\* jsObj = create_js_object("..."); if (!jsObj) return -1;
DemoCreate ==
    /\ demo.pc = "idle"
    /\ \E objOk \in BOOLEAN, bufOk \in BOOLEAN :
         /\ (~objOk => ~bufOk)
         /\ LET r == create_js_object(heap, DemoSlot, DemoString, objOk, bufOk)
            IN  /\ heap' = r.heap
                /\ last' = [op |-> "create", arg |-> NULL, ret |-> r.ret]
                /\ demo' = IF r.ret = NULL
                           THEN [pc |-> "done", jsObj |-> NULL, ret |-> <<0 - 1>>]
                           ELSE [pc |-> "retain1", jsObj |-> r.ret, ret |-> <<>>]
    /\ UNCHANGED <<ref, call, owners>>

\* retain_js_object(jsObj); retain_js_object(jsObj);
DemoRetain ==
    /\ demo.pc \in {"retain1", "retain2"}
    /\ heap' \in retain_js_object(heap, demo.jsObj)
    /\ last' = [op |-> "retain", arg |-> demo.jsObj, ret |-> NULL]
    /\ demo' = [demo EXCEPT !.pc = IF @ = "retain1" THEN "retain2" ELSE "release1"]
    /\ UNCHANGED <<ref, call, owners>>

\* release_js_object(jsObj), three times
DemoRelease ==
    /\ demo.pc \in {"release1", "release2", "release3"}
    /\ heap' = release_js_object(heap, demo.jsObj)
    /\ last' = [op |-> "release", arg |-> demo.jsObj, ret |-> NULL]
    /\ demo' = [demo EXCEPT !.pc = CASE @ = "release1" -> "release2"
                                     [] @ = "release2" -> "release3"
                                     [] OTHER -> "return"]
    /\ UNCHANGED <<ref, call, owners>>

\* return 0;
DemoReturn ==
    /\ demo.pc = "return"
    /\ demo' = [demo EXCEPT !.pc = "done", !.ret = <<0>>]
    /\ UNCHANGED <<heap, ref, call, owners, last>>

\* the demo is called once, among creations of other objects made before
\* the call or after its return (one thread)
NextDemo ==
    \/ DemoCreate
    \/ DemoRetain
    \/ DemoRelease
    \/ DemoReturn
    \/ \E s \in Slot : demo.pc \in {"idle", "done"} /\ Create(s)

SpecDemo == Init /\ [][NextDemo]_vars

TypeOK ==
    /\ ref \in [Slot -> 0..Len(heap)]
    /\ owners \in [Slot -> 0..MaxOwners]
    /\ \A a \in 1..Len(heap) : heap[a].kind \in {"obj", "buf"}

(* ---------- properties ---------- *)
\* the object of slot s exists and has not been deallocated
Live(s) == ref[s] # NULL /\ heap[ref[s]].allocated

\* the slot whose create call allocated block a
SlotOf(a) == heap[a].by

\* C1 (state part): every block is deallocated at most once, is deallocated
\* exactly once when the releases of its object total retains + 1 (no owner
\* is left), and not at all before
ExactOnceInv ==
    \A a \in DOMAIN heap :
        /\ heap[a].frees = (IF owners[SlotOf(a)] = 0 THEN 1 ELSE 0)
        /\ heap[a].allocated <=> heap[a].frees = 0

\* C1 (step part): a block is deallocated only by the release call that
\* takes the ref_count of its object from 1 to 0
FreedOnlyByLastRelease ==
    \A a \in DOMAIN heap :
        heap'[a].frees # heap[a].frees =>
            /\ last'.op = "release"
            /\ last'.arg = ref[SlotOf(a)]
            /\ heap[last'.arg].ref_count = 1
            /\ heap'[last'.arg].ref_count = 0

\* C1: over any valid sequence of operations the payload buffer and the
\* JSObject structure are each deallocated exactly once, never zero times,
\* never twice, and only by the release that takes ref_count from 1 to 0
C1_ExactOnceFree == []ExactOnceInv /\ [][FreedOnlyByLastRelease]_vars

\* C1 witness: the last release of an object with a payload buffer has just
\* deallocated both blocks
C1_Witness ==
    \E s \in Slot :
        /\ call[s].objOk /\ call[s].bufOk
        /\ last.op = "release" /\ last.arg = ref[s]
        /\ owners[s] = 0
        /\ heap[ref[s]].frees = 1
        /\ heap[heap[ref[s]].data].frees = 1

\* C2: with n retains and k releases made on a created object, the object
\* is still allocated while k <= n and is deallocated once k = n + 1
\* (owners = 1 + n - k): the final release frees it and no earlier one does
C2_FreedByFinalRelease ==
    \A s \in Slot :
        ref[s] # NULL => (heap[ref[s]].allocated <=> owners[s] > 0)

\* C2 witness: one object has just been deallocated by its final release
\* while another, retained and with releases still owed, is allocated
C2_Witness ==
    \E s, t \in Slot :
        /\ ref[s] # NULL /\ owners[s] = 0 /\ ~heap[ref[s]].allocated
        /\ last.op = "release" /\ last.arg = ref[s]
        /\ ref[t] # NULL /\ owners[t] > 1 /\ heap[ref[t]].allocated

\* C3: create returns no object whenever one of its two allocations fails,
\* and then leaves no block allocated (the structure is rolled back)
C3_CreateFailsOnAllocationFailure ==
    \A s \in Slot :
        (call[s].made /\ ~(call[s].objOk /\ call[s].bufOk)) =>
            /\ ref[s] = NULL
            /\ \A a \in DOMAIN heap : SlotOf(a) = s => ~heap[a].allocated

\* C4: after a release that leaves ref_count above 0 the object and its
\* payload are still allocated and read returns the content given to create
C4_NoPrematureFree ==
    \A s \in Slot :
        (/\ last.op = "release" /\ last.arg = ref[s] /\ ref[s] # NULL
         /\ heap[ref[s]].ref_count > 0) =>
            /\ heap[ref[s]].allocated
            /\ heap[ref[s]].data # NULL
            /\ heap[heap[ref[s]].data].allocated
            /\ StringAt(heap, js_object_get_data(heap, ref[s])) = <<call[s].data>>

\* C5: an allocated object never has a negative ref_count and is never left
\* allocated with ref_count = 0
C5_CountPositiveWhileAllocated ==
    \A a \in DOMAIN heap :
        (heap[a].kind = "obj" /\ heap[a].allocated) => heap[a].ref_count >= 1

\* C5 witness: a release has taken a count to 0 and the object is gone
C5_Witness ==
    \E a \in DOMAIN heap :
        /\ heap[a].kind = "obj" /\ heap[a].ref_count = 0 /\ ~heap[a].allocated
        /\ last.op = "release" /\ last.arg = a

\* C6 (state part): while the object is live its ref_count is
\* 1 + its retains - its releases, and at least 1
CountIsOwners ==
    \A s \in Slot : Live(s) =>
        heap[ref[s]].ref_count = owners[s] /\ owners[s] >= 1

\* C6 (step part): create yields Live(1); retain takes Live(n) to Live(n+1);
\* release takes Live(n), n > 1, to Live(n-1) and Live(1) to Freed; a freed
\* block never changes again
LifecycleStep ==
    /\ (last'.op = "create" /\ last'.ret # NULL) =>
           /\ last'.ret \notin DOMAIN heap
           /\ heap'[last'.ret].allocated
           /\ heap'[last'.ret].ref_count = 1
    /\ (last'.op = "retain" /\ last'.arg # NULL) =>
           /\ heap'[last'.arg].allocated
           /\ heap'[last'.arg].ref_count = heap[last'.arg].ref_count + 1
    /\ (last'.op = "release" /\ last'.arg # NULL) =>
           /\ heap'[last'.arg].ref_count = heap[last'.arg].ref_count - 1
           /\ heap'[last'.arg].allocated <=> heap[last'.arg].ref_count > 1
    /\ \A a \in DOMAIN heap : ~heap[a].allocated => heap'[a] = heap[a]

\* C6: an object follows Uncreated -> Live(1) -> ... -> Freed, and while it
\* is live its ref_count is 1 + retains - releases
C6_Lifecycle == []CountIsOwners /\ [][LifecycleStep]_vars

\* C6 witness: a retain has taken an object to Live(3)
C6_Witness ==
    \E s \in Slot :
        /\ Live(s) /\ last.op = "retain" /\ last.arg = ref[s]
        /\ heap[ref[s]].ref_count = 3

\* C7: retain, and a release that leaves the object live, change nothing in
\* memory but the ref_count of that object: its size, its payload pointer
\* and the bytes of its payload stay as they were
C7_RetainReleaseFrame ==
    [][(/\ last'.op \in {"retain", "release"}
        /\ last'.arg # NULL
        /\ heap'[last'.arg].allocated) =>
           /\ heap' = [heap EXCEPT ![last'.arg].ref_count = heap'[last'.arg].ref_count]
           /\ heap'[last'.arg].ref_count # heap[last'.arg].ref_count
           /\ UNCHANGED <<ref, call>>]_vars

\* C7 witness: a release has left live an object that has a payload
C7_Witness ==
    \E s \in Slot :
        /\ Live(s) /\ last.op = "release" /\ last.arg = ref[s]
        /\ heap[ref[s]].data # NULL
        /\ heap[heap[ref[s]].data].bytes # <<0>>

\* C8 (state part): read of a live object returns its payload pointer, so
\* the caller sees the very bytes of the payload
ReadReturnsPayload ==
    (last.op = "read" /\ last.arg # NULL) =>
        /\ heap[last.arg].allocated
        /\ last.ret = heap[last.arg].data
        /\ last.ret # NULL =>
               /\ heap[last.ret].kind = "buf" /\ heap[last.ret].allocated
               /\ StringAt(heap, last.ret) # <<>>

\* C8: read of a live object returns the payload and changes nothing:
\* ref_count, size, payload and allocation status are as before the call
C8_ReadFrame ==
    /\ []ReadReturnsPayload
    /\ [][last'.op = "read" => UNCHANGED <<heap, ref, call, owners>>]_vars

\* C8 witness: a read of a live, retained object returned a non-empty payload
C8_Witness ==
    \E s \in Slot :
        /\ Live(s) /\ last.op = "read" /\ last.arg = ref[s]
        /\ owners[s] > 1
        /\ StringAt(heap, last.ret) = <<(<<65>>)>>

\* C9 (step part): a call of retain, release or read on the null pointer
\* changes no object and deallocates nothing
NullCallStep ==
    (last'.op \in {"retain", "release", "read"} /\ last'.arg = NULL) =>
        UNCHANGED <<heap, ref, call, owners>>

\* C9 (state part): read(NULL) returns the string "null"
NullReadSentinel ==
    (last.op = "read" /\ last.arg = NULL) =>
        StringAt(heap, last.ret) = <<NullString>>

\* C9: retain(NULL) and release(NULL) are no-ops and read(NULL) returns the
\* sentinel string "null"
C9_NullSafety == []NullReadSentinel /\ [][NullCallStep]_vars

\* C9 witness: read(NULL) returned the sentinel while an object is live
C9_Witness ==
    /\ last.op = "read" /\ last.arg = NULL /\ last.ret = NullLiteral
    /\ \E s \in Slot : Live(s)

\* C10: whenever create(d) returned an object, read of it returns a string
\* equal to d
C10_RoundTrip ==
    \A s \in Slot :
        (last.op = "read" /\ last.arg = ref[s] /\ ref[s] # NULL) =>
            StringAt(heap, last.ret) = <<call[s].data>>

\* C11: the release that takes ref_count to 0 frees the payload buffer first
\* and the JSObject second, in the same call: between calls the two are
\* either both allocated or both freed
C11_PayloadFreedBeforeObject ==
    \A a \in DOMAIN heap :
        (heap[a].kind = "obj" /\ heap[a].data # NULL) =>
            /\ heap[a].allocated <=> heap[heap[a].data].allocated
            /\ ~heap[a].allocated =>
                   heap[heap[a].data].seq = 1 /\ heap[a].seq = 2

\* C11 witness: a release has just freed an object and its payload
C11_Witness ==
    \E a \in DOMAIN heap :
        /\ heap[a].kind = "obj" /\ heap[a].data # NULL
        /\ last.op = "release" /\ last.arg = a
        /\ heap[a].seq = 2 /\ heap[heap[a].data].seq = 1

\* C12: no call other than release deallocates anything: over a create, a
\* retain or a read (of an object or of NULL) every block allocated before
\* is allocated after, with its free count unchanged
C12_OnlyReleaseFrees ==
    [][last'.op # "release" =>
          \A a \in DOMAIN heap :
              /\ heap'[a].allocated = heap[a].allocated
              /\ heap'[a].frees = heap[a].frees]_vars

\* C12 witness: after retains and a read, and never a final release, the
\* object and its payload are allocated
C12_Witness ==
    \E s \in Slot :
        /\ last.op = "read" /\ last.arg = ref[s] /\ ref[s] # NULL
        /\ owners[s] = MaxOwners
        /\ heap[ref[s]].allocated /\ heap[ref[s]].frees = 0
        /\ last.ret # NULL /\ heap[last.ret].allocated

\* the number of bytes of d before its first zero byte (all of d if none)
BeforeNul(d) ==
    IF \E i \in 1..Len(d) : d[i] = 0
    THEN (CHOOSE i \in 1..Len(d) : d[i] = 0 /\ \A j \in 1..(i - 1) : d[j] # 0) - 1
    ELSE Len(d)

\* an object just returned by create has ref_count 1
CreatedWithCountOne ==
    (last.op = "create" /\ last.ret # NULL) => heap[last.ret].ref_count = 1

C14_RetainAlwaysIncrements ==
    [][(last'.op = "retain" /\ last'.arg # NULL) =>
          /\ heap'[last'.arg].ref_count > heap[last'.arg].ref_count
          /\ heap'[last'.arg].ref_count - heap[last'.arg].ref_count = 1
          /\ heap'[last'.arg].ref_count > 0]_vars

\* C14 as amended: retain on a live object whose count is below the largest
\* int adds exactly 1 to ref_count and leaves it positive
C14_RetainIncrementsBelowMax ==
    [][(/\ last'.op = "retain" /\ last'.arg # NULL
        /\ heap[last'.arg].ref_count < INT_MAX) =>
          /\ heap'[last'.arg].ref_count = heap[last'.arg].ref_count + 1
          /\ heap'[last'.arg].ref_count > 0]_vars

\* C14 witness: a retain has taken a count to INT_MAX - 1
C14_Witness ==
    \E s \in Slot :
        /\ Live(s) /\ last.op = "retain" /\ last.arg = ref[s]
        /\ heap[ref[s]].ref_count = INT_MAX - 1

\* C15: create of the empty string, its allocations succeeding, returns an
\* object; a read before its last release returns the empty string; its
\* last release frees the payload buffer and the JSObject, each exactly once
C15_EmptyPayload ==
    \A s \in Slot :
        (call[s].objOk /\ call[s].bufOk /\ call[s].data = <<>>) =>
            /\ ref[s] # NULL
            /\ Live(s) <=> owners[s] > 0
            /\ Live(s) =>
                   StringAt(heap, js_object_get_data(heap, ref[s])) = <<(<<>>)>>
            /\ (last.op = "read" /\ last.arg = ref[s]) =>
                   StringAt(heap, last.ret) = <<(<<>>)>>
            /\ owners[s] = 0 =>
                   \A a \in {ref[s], heap[ref[s]].data} :
                       a # NULL /\ ~heap[a].allocated /\ heap[a].frees = 1

\* C15 witness: an object made from the empty string, with a payload
\* buffer of one byte, has just been released and freed
C15_Witness ==
    \E s \in Slot :
        /\ call[s].objOk /\ call[s].bufOk /\ call[s].data = <<>>
        /\ last.op = "release" /\ last.arg = ref[s]
        /\ ~heap[ref[s]].allocated
        /\ heap[heap[ref[s]].data].size = 1
        /\ heap[heap[ref[s]].data].frees = 1

\* the fraction x equals n / d
IsFraction(x, n, d) == x[2] > 0 /\ x[1] * d = n * x[2]

\* C16 (state part): the value returned for operands a, b and a selector
MathResult ==
    last.op = "fast_math_operation" =>
        LET a == last.arg[1]
            b == last.arg[2]
            operation == last.arg[3]
            r == last.ret
        IN  /\ operation = 0 => IsFraction(r, a[1] * b[2] + b[1] * a[2], a[2] * b[2])
            /\ operation = 1 => IsFraction(r, a[1] * b[2] - b[1] * a[2], a[2] * b[2])
            /\ operation = 2 => IsFraction(r, a[1] * b[1], a[2] * b[2])
            /\ (operation = 3 /\ b[1] # 0) =>
                   /\ IsFraction(r, a[1] * b[2], a[2] * b[1]) \/
                      IsFraction(r, 0 - a[1] * b[2], 0 - a[2] * b[1])
                   /\ r[1] * b[1] = a[1] * b[2] * r[2]
            /\ (operation = 3 /\ b[1] = 0) => r = <<0, 1>>
            /\ operation \notin 0..3 => r = <<0, 1>>

\* C16: the dispatcher returns a+b, a-b, a*b, a/b for selectors 0, 1, 2, 3,
\* returns 0 for a zero divisor and for any other selector, and changes no
\* other state
C16_MathDispatch ==
    /\ []MathResult
    /\ [][last'.op = "fast_math_operation" =>
             UNCHANGED <<heap, ref, call, owners>>]_vars

\* C16 witness: 1 / 2 has been computed while an object is live
C16_Witness ==
    /\ last.op = "fast_math_operation"
    /\ last.arg = <<(<<1, 1>>), <<2, 1>>, 3>>
    /\ last.ret = <<1, 2>>
    /\ Live(1)

\* the blocks allocated by perform_low_level_demo
DemoBlocks == {a \in DOMAIN heap : heap[a].by = DemoSlot}

\* C17 (state part): the demo returns -1 exactly when create returned NULL
\* and 0 otherwise; no block of its own is ever freed twice, and when it
\* has returned each of them has been freed exactly once
DemoResult ==
    /\ \A a \in DemoBlocks : heap[a].frees <= 1
    /\ demo.pc = "done" =>
           /\ demo.ret \in {<<0 - 1>>, <<0>>}
           /\ demo.ret = <<0 - 1>> <=> demo.jsObj = NULL
           /\ demo.jsObj = NULL <=> DemoBlocks = {}
           /\ \A a \in DemoBlocks : ~heap[a].allocated /\ heap[a].frees = 1

\* C17 (step part): every retain and release of the demo is made on an
\* object that is still allocated, and nothing follows the third release
\* but the return
DemoStep ==
    /\ demo.pc \in {"retain1", "retain2", "release1", "release2", "release3"} =>
           heap[demo.jsObj].allocated
    /\ demo.pc = "return" => heap' = heap

\* C17: perform_low_level_demo returns -1 exactly when create returns no
\* object and 0 otherwise, has freed every block it allocated exactly once
\* when it returns, and does nothing with the object after the third release
C17_DemoFreesAll == []DemoResult /\ [][DemoStep]_vars

\* C17 witness: the demo has returned 0 after its object and payload were
\* freed, while an object created before the call is live
C17_Witness ==
    /\ demo.pc = "done" /\ demo.ret = <<0>>
    /\ heap[demo.jsObj].data # NULL
    /\ heap[demo.jsObj].frees = 1
    /\ heap[heap[demo.jsObj].data].frees = 1
    /\ heap[heap[demo.jsObj].data].size = 32
    /\ \E s \in Slot : Live(s) /\ ref[s] < demo.jsObj

\* C18: a retain, release or read of one object, the release that frees it
\* included, leaves every block of the other objects, and the caller's
\* pointers and owner counts of the other objects, as they were
C18_HandlesIndependent ==
    [][\A s \in Slot :
          (/\ last'.op \in {"retain", "release", "read"}
           /\ ref[s] # NULL /\ last'.arg = ref[s]) =>
              /\ \A a \in DOMAIN heap : heap[a].by # s => heap'[a] = heap[a]
              /\ \A t \in Slot \ {s} :
                     ref'[t] = ref[t] /\ owners'[t] = owners[t] /\ call'[t] = call[t]]_vars

\* C18 witness: of two objects with payloads, one has just been freed by
\* its release and the other is live with its payload as created
C18_Witness ==
    \E s, t \in Slot :
        /\ s # t
        /\ last.op = "release" /\ last.arg = ref[s] /\ ref[s] # NULL
        /\ heap[ref[s]].data # NULL /\ ~heap[heap[ref[s]].data].allocated
        /\ Live(t) /\ heap[ref[t]].data # NULL
        /\ heap[heap[ref[t]].data].allocated
        /\ heap[heap[ref[t]].data].bytes = strcpy(call[t].data)
====
